---- MODULE Spec2Model ----
(***************************************************************************)
(* A model of the a2a-demo agents: the shared ADKAgentExecutor             *)
(* (analyzer-agent/base_executor.py), the host agent's A2AToolClient       *)
(* (host-agent/app.py) and the demo client (client/demo.py).               *)
(*                                                                         *)
(* One behaviour is the life of one process, chosen in Init: an agent      *)
(* server ("trending", "analyzer", "host") that runs execute() for the     *)
(* requests it receives, or the demo client ("demo").  Calls into the a2a, *)
(* ADK and httpx libraries are modelled at their boundary: a call either   *)
(* has its documented effect and returns, or raises without effect.  An    *)
(* execution suffers at most one such failure: the status update of the    *)
(* except handler (lines 106-110) is the step that reports it.             *)
(*                                                                         *)
(* The specifications share the variables and Init.  ExecSpec, DiscSpec    *)
(* and HostSpec take the requests of this repository's own clients, which  *)
(* send neither taskId nor contextId; ConcSpec is the analyzer serving two *)
(* requests of arbitrary A2A clients.                                      *)
(***************************************************************************)
EXTENDS Naturals, Sequences, FiniteSets, TLC

\* ------------------------------------------------------------------ bounds
MaxExec == 1        \* executions of execute() a server process runs concurrently
MaxGenEvents == 1   \* events one run_async generation yields
MaxParts == 1       \* parts of one generation event's content
MaxDiscCalls == 2   \* discovery calls a client makes
MaxToolCalls == 2   \* tool calls the host's generation makes in one execution
MaxCancels == 1     \* cancel calls a server process receives
MaxAdds == 2        \* add_remote_agent calls a client receives after __init__
MaxYield == 4       \* events and parts, in all, a traced generation yields

\* --------------------------------------------------------------- constants
None == "None"

Agents == {"trending", "analyzer", "host"}
Procs == Agents \cup {"demo"}
Execs == 1..MaxExec

\* The requests a server process holds at a time: those of Execs and one more.
Slots == 1..(MaxExec + 1)

\* The contextId values of tasks: new_task draws a uuid for a message without
\* contextId (c for request c), or takes the one a client put in the message.
Contexts == Slots

\* str(e) of the exceptions a library call raises; Exception() prints as "".
Errors == {"", "boom"}

\* create_agent_a2a_server(..., artifact_name=...) of the three servers.
ArtifactNameDefault(a) == "response"
ArtifactName(a) ==
    CASE a = "trending" -> "trending_topics"
      [] a = "analyzer" -> "trend_analysis"
      [] a = "host" -> "trend_report"

\* create_agent_a2a_server(..., status_message=...) of the three servers.
StatusMessage(a) ==
    CASE a = "trending" -> "Searching for trending topics..."
      [] a = "analyzer" -> "Analyzing trend with quantitative data..."
      [] a = "host" -> "Orchestrating trend analysis..."

\* ------------------------------------------------------------------ events
\* The three event types execute() puts on the EventQueue, as one record shape.
TaskEvent(t) ==
    [kind |-> "task", taskId |-> t, state |-> "submitted", final |-> FALSE,
     msg |-> None, name |-> None, text |-> None]

\* TaskUpdater.update_status(state, message, final): a TaskStatusUpdateEvent.
StatusEvent(t, s, m, f) ==
    [kind |-> "status", taskId |-> t, state |-> s, final |-> f,
     msg |-> m, name |-> None, text |-> None]

\* TaskUpdater.add_artifact([Part(TextPart(text))], name): a TaskArtifactUpdateEvent
\* carrying one artifact with one text part.
ArtifactEvent(t, n, x) ==
    [kind |-> "artifact", taskId |-> t, state |-> None, final |-> FALSE,
     msg |-> None, name |-> n, text |-> x]

\* ------------------------------------------------------ generation results
\* A part of a generation event: text (a string or None) and whether it is a
\* function call.  google.genai Part has both attributes on every instance.
PartValues ==
    {[text |-> "a", function_call |-> FALSE],
     [text |-> "", function_call |-> FALSE],
     [text |-> None, function_call |-> TRUE]}

SeqsUpTo(S, n) == UNION {[1..k -> S] : k \in 0..n}

\* An ADK event: is_final_response() and content.parts (<<>>: no content or no parts).
GenEventValues == [final : BOOLEAN, parts : SeqsUpTo(PartValues, MaxParts)]

GenOutputs == SeqsUpTo(GenEventValues, MaxGenEvents)

\* Lines 90-92: the text one event's parts add to response_text.
RECURSIVE PartsText(_)
PartsText(ps) ==
    IF ps = <<>> THEN ""
    ELSE LET p == Head(ps)
         IN (IF p.text # None /\ p.text # "" THEN p.text \o "\n" ELSE "")
            \o PartsText(Tail(ps))

\* Lines 83-95, taking the parts of every event, final response or not.
RECURSIVE ResponseTextOfEveryEvent(_)
ResponseTextOfEveryEvent(evs) ==
    IF evs = <<>> THEN ""
    ELSE PartsText(Head(evs).parts) \o ResponseTextOfEveryEvent(Tail(evs))

\* Lines 83-95: response_text after the async for over the generation's events.
RECURSIVE ResponseText(_)
ResponseText(evs) ==
    IF evs = <<>> THEN ""
    ELSE LET ev == Head(evs)
         IN (IF ev.final /\ ev.parts # <<>> THEN PartsText(ev.parts) ELSE "")
            \o ResponseText(Tail(evs))

\* ------------------------------------------------------ discovery: the data
\* The agent URLs, normalized (rstrip('/')), in the order __init__ registers them.
TrendingUrl == "http://localhost:10020"
AnalyzerUrl == "http://localhost:10021"
HostUrl == "http://localhost:10022"

\* The keys of _agent_info_cache after __init__, in insertion order.
KeyOrder(p) ==
    CASE p = "host" -> <<TrendingUrl, AnalyzerUrl>>
      [] p = "demo" -> <<TrendingUrl, AnalyzerUrl, HostUrl>>
      [] OTHER -> <<>>

Registered(p) == {KeyOrder(p)[i] : i \in 1..Len(KeyOrder(p))}

\* What GET {url}/.well-known/agent.json meets: the connection fails (net), or a
\* response arrives with a status and a body.  Bodies: the agent's card document,
\* a JSON object without a name field, text that is not JSON.
FetchOutcomes ==
    {[net |-> "refused", status |-> 0, body |-> None],
     [net |-> "timeout", status |-> 0, body |-> None],
     [net |-> "ok", status |-> 200, body |-> "card"],
     [net |-> "ok", status |-> 200, body |-> "no_name"],
     [net |-> "ok", status |-> 200, body |-> "not_json"],
     [net |-> "ok", status |-> 503, body |-> "no_name"],
     [net |-> "ok", status |-> 503, body |-> "not_json"]}

\* name of the card each server publishes (create_agent_a2a_server(name=...)).
CardName(u) ==
    CASE u = TrendingUrl -> "Trending Topics Agent"
      [] u = AnalyzerUrl -> "Trend Analyzer Agent"
      [] u = HostUrl -> "Trend Analysis Host"

\* response.json(): the decoded body.  A key the document lacks is None here.
Json(u, body) ==
    IF body = "card"
    THEN [name |-> CardName(u), url |-> u, error |-> None]
    ELSE [name |-> None, url |-> None, error |-> "unavailable"]

VARIABLES
    proc,           \* the process this behaviour is the life of
    pc,             \* pc[e]: the line execution e of execute() is about to run
    task,           \* task[e]: id of the task of execution e (0: none yet)
    response_text,  \* response_text[e]: the local of line 83
    raisedAt,       \* raisedAt[e]: the line whose call raised in e ("none")
    err,            \* err[e]: str(e) of the exception raised in e
    queue,          \* queue[e]: the EventQueue of the request, not yet consumed
    observed,       \* observed[e]: the events the transport consumer has taken
    cache,          \* _agent_info_cache: url -> <<>> (None) or <<agent_data>>
    discCalls,      \* discovery calls made so far
    lastFetch,      \* url -> what the GET of the last discovery call met
    lastResult,     \* remote_agents_info the last discovery call returned
    discRaised,     \* whether the last discovery call raised
    prevCache,      \* _agent_info_cache as the last discovery call found it
    prevResult,     \* remote_agents_info the discovery call before the last returned
    samePeers,      \* whether the last two discovery calls met the same peers
    toolLog,        \* toolLog[e]: the tool calls of e's generation, with results
    ctx,            \* ctx[e]: task.contextId of the task of execution e
    clients,        \* whose requests the process serves: "own" or "any" clients
    sessions,       \* runner.session_service: session id -> <<>> or <<session>>
    wire,           \* the JSON-RPC requests the host's client has posted
    keys,           \* the keys of _agent_info_cache, in insertion order
    adds,           \* add_remote_agent calls made after __init__
    lastAdd,        \* the last of them: its argument, and the discovery calls before it
    cancels,        \* cancel calls made so far
    lastCancel,     \* the last cancel call: its task id, and where the task's execution was
    yielded,        \* yielded[e]: <<>>, or <<the events run_async yielded in e>> when traced
    trace           \* whether the events of the generations are recorded

vars == <<proc, pc, task, response_text, raisedAt, err, queue, observed,
          cache, discCalls, lastFetch, lastResult, discRaised, prevCache,
          prevResult, samePeers, toolLog, ctx, clients, sessions, wire,
          keys, adds, lastAdd, cancels, lastCancel, yielded, trace>>

discVars == <<cache, discCalls, lastFetch, lastResult, discRaised, prevCache,
              prevResult, samePeers, keys>>

regVars == <<adds, lastAdd>>

cancelVars == <<cancels, lastCancel>>

genVars == <<yielded, trace>>

sessVars == <<ctx, clients, sessions>>

Init ==
    /\ proc \in Procs
    /\ pc = [e \in Slots |-> "idle"]
    /\ task = [e \in Slots |-> 0]
    /\ response_text = [e \in Slots |-> ""]
    /\ raisedAt = [e \in Slots |-> "none"]
    /\ err = [e \in Slots |-> None]
    /\ queue = [e \in Slots |-> <<>>]
    /\ observed = [e \in Slots |-> <<>>]
    /\ cache = [u \in Registered(proc) |-> <<>>]
    /\ discCalls = 0
    /\ lastFetch = <<>>
    /\ lastResult = <<>>
    /\ discRaised = FALSE
    /\ prevCache = cache
    /\ prevResult = <<>>
    /\ samePeers = FALSE
    /\ toolLog = [e \in Slots |-> <<>>]
    /\ ctx = [e \in Slots |-> None]
    /\ clients \in {"own", "any"}
    /\ sessions = [c \in Contexts |-> <<>>]
    /\ wire = <<>>
    /\ keys = KeyOrder(proc)
    /\ adds = 0
    /\ lastAdd = <<>>
    /\ cancels = 0
    /\ lastCancel = <<>>
    /\ yielded = [e \in Slots |-> <<>>]
    /\ trace \in BOOLEAN

\* A final-response event with the given text parts.
FinalEvent(texts) ==
    [final |-> TRUE,
     parts |-> [i \in 1..Len(texts) |-> [text |-> texts[i], function_call |-> FALSE]]]

IsCreateTask(l) == l.tool = "create_task"

\* The texts create_task has returned to the generation of execution e.
ToolTexts(e) ==
    LET calls == SelectSeq(toolLog[e], IsCreateTask)
    IN [i \in 1..Len(calls) |-> calls[i].text]

\* What run_async can yield after create_task calls.  The generation is opaque:
\* it may report nothing of the calls, its own text only, the text of one call,
\* or the texts of all calls.  (Without tool calls: any of GenOutputs.)
ToolOutputs(e) ==
    {<<>>, <<FinalEvent(<<"a">>)>>, <<FinalEvent(ToolTexts(e))>>}
    \cup {<<FinalEvent(<<ToolTexts(e)[i]>>)>> : i \in 1..Len(ToolTexts(e))}

\* The parts of the events of a traced generation: two texts that differ, the
\* empty text, and a function call without text.
TracedPartValues ==
    {[text |-> "a", function_call |-> FALSE],
     [text |-> "b", function_call |-> FALSE],
     [text |-> "", function_call |-> FALSE],
     [text |-> None, function_call |-> TRUE]}

\* The event sequences of a traced generation: those of at most n events and
\* parts in all.
RECURSIVE TracedOutputs(_)
TracedOutputs(n) ==
    {<<>>} \cup
    UNION {{<<ev>> \o rest :
                ev \in [final : BOOLEAN, parts : [1..k -> TracedPartValues]],
                rest \in TracedOutputs(n - 1 - k)} : k \in 0..(n - 1)}

\* Lines 84-88: the event sequences run_async can yield before it ends.
RunOutputs(e) ==
    IF ToolTexts(e) # <<>> THEN ToolOutputs(e)
    ELSE IF trace THEN TracedOutputs(MaxYield) ELSE GenOutputs

\* response_text for each output of a generation without tool calls.
GenTexts == {ResponseText(evs) : evs \in GenOutputs}

\* Lines 83-95: the values response_text can have when the async for ends.
RunTexts(e) ==
    IF ToolTexts(e) = <<>> /\ ~trace THEN GenTexts
    ELSE {ResponseText(evs) : evs \in RunOutputs(e)}

\* Lines 83-95: what the async for leaves: response_text and, when traced, the
\* events it iterated over.
RunResults(e) ==
    IF trace
    THEN {[text |-> ResponseText(evs), events |-> <<evs>>] : evs \in RunOutputs(e)}
    ELSE {[text |-> text, events |-> <<>>] : text \in RunTexts(e)}

\* ------------------------------------------------- ADKAgentExecutor.execute
\* EventQueue.enqueue_event(ev) on the queue of execution e.
Enqueue(e, ev) == queue' = [queue EXCEPT ![e] = Append(@, ev)]

\* A call outside the try block raises: the exception leaves execute().
Escape(e, line) ==
    /\ pc' = [pc EXCEPT ![e] = "escaped"]
    /\ raisedAt' = [raisedAt EXCEPT ![e] = line]
    /\ \E x \in Errors : err' = [err EXCEPT ![e] = x]

\* A call inside the try block raises: control goes to the except clause.
Raise(e, line) ==
    /\ pc' = [pc EXCEPT ![e] = "l106"]
    /\ raisedAt' = [raisedAt EXCEPT ![e] = line]
    /\ \E x \in Errors : err' = [err EXCEPT ![e] = x]

\* The request handler calls execute(context, event_queue) for a request.
Start(e) ==
    /\ proc \in Agents
    /\ pc[e] = "idle"
    /\ pc' = [pc EXCEPT ![e] = "l57"]
    /\ UNCHANGED <<proc, task, response_text, raisedAt, err, queue, observed, discVars,
                   toolLog, sessVars, wire, regVars, cancelVars, genVars>>

\* Line 57: query = context.get_user_input()
GetUserInput(e) ==
    /\ pc[e] = "l57"
    /\ \/ /\ pc' = [pc EXCEPT ![e] = "l58"]
          /\ UNCHANGED <<raisedAt, err>>
       \/ Escape(e, "l57")
    /\ UNCHANGED <<proc, task, response_text, queue, observed, discVars, toolLog, sessVars, wire,
                   regVars, cancelVars, genVars>>

\* The executions whose task a message can continue: the task is in the store
\* (its task event was enqueued) and has not reached a terminal state.
Continuable(e) ==
    {f \in Slots \ {e} : pc[f] \in {"l65", "l71", "l84", "l98", "l103", "l106"}}

\* Line 58: task = context.current_task or new_task(context.message).  The
\* clients of this repository ("own") send neither taskId nor contextId:
\* current_task is None and new_task draws a fresh task id (e for execution e)
\* and a fresh contextId.  Other A2A clients ("any") may put a contextId in the
\* message, or the taskId of a task that is not terminal: current_task is it.
NewTask(e) ==
    /\ pc[e] = "l58"
    /\ \/ /\ pc' = [pc EXCEPT ![e] = "l59"]
          /\ \/ /\ task' = [task EXCEPT ![e] = e]
                /\ \E c \in (IF clients = "own" THEN {e} ELSE Contexts) :
                       ctx' = [ctx EXCEPT ![e] = c]
             \/ /\ clients = "any"
                /\ \E f \in Continuable(e) :
                       /\ task' = [task EXCEPT ![e] = task[f]]
                       /\ ctx' = [ctx EXCEPT ![e] = ctx[f]]
          /\ UNCHANGED <<raisedAt, err>>
       \/ Escape(e, "l58") /\ UNCHANGED <<task, ctx>>
    /\ UNCHANGED <<proc, response_text, queue, observed, discVars, toolLog, clients,
                   sessions, wire, regVars, cancelVars, genVars>>

\* Line 59: await event_queue.enqueue_event(task)
EnqueueTask(e) ==
    /\ pc[e] = "l59"
    /\ \/ /\ pc' = [pc EXCEPT ![e] = "l65"]
          /\ Enqueue(e, TaskEvent(task[e]))
          /\ UNCHANGED <<raisedAt, err>>
       \/ Escape(e, "l59") /\ UNCHANGED queue
    /\ UNCHANGED <<proc, task, response_text, observed, discVars, toolLog, sessVars, wire,
                   regVars, cancelVars, genVars>>

\* Lines 65-68: updater.update_status(TaskState.working, status_message)
UpdateWorkingSkipped(e) ==
    /\ pc[e] = "l65"
    /\ pc' = [pc EXCEPT ![e] = "l71"]
    /\ UNCHANGED <<proc, task, response_text, raisedAt, err, queue, observed, discVars, toolLog, sessVars, wire,
                   regVars, cancelVars, genVars>>
UpdateWorking(e) ==
    /\ pc[e] = "l65"
    /\ \/ /\ pc' = [pc EXCEPT ![e] = "l71"]
          /\ Enqueue(e, StatusEvent(task[e], "working", StatusMessage(proc), FALSE))
          /\ UNCHANGED <<raisedAt, err>>
       \/ Raise(e, "l65") /\ UNCHANGED queue
    /\ UNCHANGED <<proc, task, response_text, observed, discVars, toolLog, sessVars, wire,
                   regVars, cancelVars, genVars>>

\* Line 75: session_id=task.contextId; line 86: session_id=session.id.
SessionIdOfUser(e) == 1
SessionId(e) == ctx[e]

\* Lines 71-76: session = await self.runner.session_service.create_session(...)
\* The service stores a new, empty session under the id, in the place of a
\* session the id may have had.
CreateSessionOnce(e) ==
    /\ pc[e] = "l71"
    /\ \/ /\ sessions[SessionId(e)] = <<>>
          /\ pc' = [pc EXCEPT ![e] = "l84"]
          /\ sessions' = [sessions EXCEPT ![SessionId(e)] =
                              <<[owner |-> task[e], events |-> <<>>]>>]
          /\ UNCHANGED <<raisedAt, err>>
       \/ Raise(e, "l71") /\ UNCHANGED sessions
    /\ UNCHANGED <<proc, task, response_text, queue, observed, discVars, toolLog, ctx,
                   clients, wire, regVars, cancelVars, genVars>>
CreateSession(e) ==
    /\ pc[e] = "l71"
    /\ \/ /\ pc' = [pc EXCEPT ![e] = "l84"]
          /\ sessions' = [sessions EXCEPT ![SessionId(e)] =
                              <<[owner |-> task[e], events |-> <<>>]>>]
          /\ UNCHANGED <<raisedAt, err>>
       \/ Raise(e, "l71") /\ UNCHANGED sessions
    /\ UNCHANGED <<proc, task, response_text, queue, observed, discVars, toolLog, ctx,
                   clients, wire, regVars, cancelVars, genVars>>

\* The runner appends the events of a generation for task t to the session.
SessionAppend(ss, t) ==
    IF ss = <<>> THEN ss
    ELSE <<[ss[1] EXCEPT !.events = Append(@, t)]>>

\* Lines 83-95: the async for over runner.run_async(...): the generation yields
\* its events and ends, or raises.  The runner records the exchange in the
\* session of line 86.
RunAsync(e) ==
    /\ pc[e] = "l84"
    /\ \/ /\ \E run \in RunResults(e) :
                /\ response_text' = [response_text EXCEPT ![e] = run.text]
                /\ yielded' = [yielded EXCEPT ![e] = run.events]
          /\ pc' = [pc EXCEPT ![e] = "l98"]
          /\ sessions' = [sessions EXCEPT ![SessionId(e)] = SessionAppend(@, task[e])]
          /\ UNCHANGED <<raisedAt, err>>
       \/ Raise(e, "l84") /\ UNCHANGED <<response_text, sessions, yielded>>
    /\ UNCHANGED <<proc, task, queue, observed, discVars, toolLog, ctx, clients, wire,
                   regVars, cancelVars, trace>>

\* Lines 98-101, attaching the artifact only when response_text is not empty.
AddArtifactUnlessEmpty(e) ==
    /\ pc[e] = "l98"
    /\ \/ /\ pc' = [pc EXCEPT ![e] = "l103"]
          /\ IF response_text[e] = "" THEN UNCHANGED queue
             ELSE Enqueue(e, ArtifactEvent(task[e], ArtifactName(proc), response_text[e]))
          /\ UNCHANGED <<raisedAt, err>>
       \/ Raise(e, "l98") /\ UNCHANGED queue
    /\ UNCHANGED <<proc, task, response_text, observed, discVars, toolLog, sessVars, wire,
                   regVars, cancelVars, genVars>>

\* Lines 98-101: updater.add_artifact([Part(TextPart(response_text))], name)
AddArtifact(e) ==
    /\ pc[e] = "l98"
    /\ \/ /\ pc' = [pc EXCEPT ![e] = "l103"]
          /\ Enqueue(e, ArtifactEvent(task[e], ArtifactName(proc), response_text[e]))
          /\ UNCHANGED <<raisedAt, err>>
       \/ Raise(e, "l98") /\ UNCHANGED queue
    /\ UNCHANGED <<proc, task, response_text, observed, discVars, toolLog, sessVars, wire,
                   regVars, cancelVars, genVars>>

\* Line 103: updater.complete(): update_status(TaskState.completed, final=True)
Complete(e) ==
    /\ pc[e] = "l103"
    /\ \/ /\ pc' = [pc EXCEPT ![e] = "returned"]
          /\ Enqueue(e, StatusEvent(task[e], "completed", None, TRUE))
          /\ UNCHANGED <<raisedAt, err>>
       \/ Raise(e, "l103") /\ UNCHANGED queue
    /\ UNCHANGED <<proc, task, response_text, observed, discVars, toolLog, sessVars, wire,
                   regVars, cancelVars, genVars>>

\* Lines 105-110: except Exception as e: update_status(failed, "Error: {e!s}",
\* final=True)
ExceptHandlerSilent(e) ==
    /\ pc[e] = "l106"
    /\ pc' = [pc EXCEPT ![e] = "returned"]
    /\ UNCHANGED <<proc, task, response_text, raisedAt, err, queue, observed, discVars, toolLog, sessVars, wire,
                   regVars, cancelVars, genVars>>
ExceptHandlerNoText(e) ==
    /\ pc[e] = "l106"
    /\ pc' = [pc EXCEPT ![e] = "returned"]
    /\ Enqueue(e, StatusEvent(task[e], "failed", None, FALSE))
    /\ UNCHANGED <<proc, task, response_text, raisedAt, err, observed, discVars, toolLog, sessVars, wire,
                   regVars, cancelVars, genVars>>
ExceptHandlerFallsThrough(e) ==
    /\ pc[e] = "l106"
    /\ pc' = [pc EXCEPT ![e] = "l103"]
    /\ Enqueue(e, StatusEvent(task[e], "failed", "Error: " \o err[e], TRUE))
    /\ UNCHANGED <<proc, task, response_text, raisedAt, err, observed, discVars, toolLog, sessVars, wire,
                   regVars, cancelVars, genVars>>
ExceptHandler(e) ==
    /\ pc[e] = "l106"
    /\ pc' = [pc EXCEPT ![e] = "returned"]
    /\ Enqueue(e, StatusEvent(task[e], "failed", "Error: " \o err[e], TRUE))
    /\ UNCHANGED <<proc, task, response_text, raisedAt, err, observed, discVars, toolLog, sessVars, wire,
                   regVars, cancelVars, genVars>>

\* One step of execution e: the event loop resumes the coroutine at its line.
ExecStep(e) ==
    \/ GetUserInput(e)
    \/ NewTask(e)
    \/ EnqueueTask(e)
    \/ UpdateWorking(e)
    \/ CreateSession(e)
    \/ RunAsync(e)
    \/ AddArtifact(e)
    \/ Complete(e)
    \/ ExceptHandler(e)

\* The transport layer's consumer takes the next event of the request's queue.
Consume(e) ==
    /\ queue[e] # <<>>
    /\ observed' = [observed EXCEPT ![e] = Append(@, Head(queue[e]))]
    /\ queue' = [queue EXCEPT ![e] = Tail(@)]
    /\ UNCHANGED <<proc, pc, task, response_text, raisedAt, err, discVars, toolLog, sessVars, wire,
                   regVars, cancelVars, genVars>>

ExecNext == \E e \in Execs : Start(e) \/ ExecStep(e) \/ Consume(e)

ExecInit == Init /\ proc \in Agents /\ clients = "own" /\ ~trace

\* The executor of an agent server process.
ExecSpec == ExecInit /\ [][ExecNext]_vars

\* The event loop resumes every started coroutine until it returns or raises.
ExecFairSpec == ExecSpec /\ \A e \in Execs : WF_vars(ExecStep(e))

\* One request, with the events of its generation recorded.
GenNext == \E e \in {1} : Start(e) \/ ExecStep(e) \/ Consume(e)

GenInit == Init /\ proc \in Agents /\ clients = "own" /\ trace

GenSpec == GenInit /\ [][GenNext]_vars

\* The task ids a cancel request can name: those of the process's tasks, and
\* an id (0) no task has.
TaskIds == {0} \cup Slots

\* Where the executions of task task_id are when cancel is called for it.
CancelPoint(task_id) == {pc[e] : e \in {x \in Slots : task[x] = task_id /\ task_id # 0}}

\* A cancel that moves the task to canceled with a final status event.
CancelFailingTask(task_id) ==
    /\ proc \in Agents
    /\ cancels < MaxCancels
    /\ cancels' = cancels + 1
    /\ lastCancel' = <<[id |-> task_id, at |-> CancelPoint(task_id)]>>
    /\ queue' = [e \in Slots |->
                    IF task[e] = task_id /\ task_id # 0
                    THEN Append(queue[e], StatusEvent(task_id, "canceled", None, TRUE))
                    ELSE queue[e]]
    /\ UNCHANGED <<proc, pc, task, response_text, raisedAt, err, observed, discVars,
                   toolLog, sessVars, wire, regVars, genVars>>

\* Lines 50-53: ADKAgentExecutor.cancel(task_id): pass.
Cancel(task_id) ==
    /\ proc \in Agents
    /\ cancels < MaxCancels
    /\ cancels' = cancels + 1
    /\ lastCancel' = <<[id |-> task_id, at |-> CancelPoint(task_id)]>>
    /\ UNCHANGED <<proc, pc, task, response_text, raisedAt, err, queue, observed,
                   discVars, toolLog, sessVars, wire, regVars, genVars>>

CancelNext ==
    \/ \E e \in {1} : Start(e) \/ ExecStep(e) \/ Consume(e)
    \/ \E task_id \in TaskIds : Cancel(task_id)

\* The executor of an agent server process serving one request, with cancel
\* requests for any task id arriving at any point of it.
CancelSpec == ExecInit /\ [][CancelNext]_vars

\* Two requests in one server process: the event loop interleaves their
\* coroutines at every await, and each request has its consumer.
ConcExecs == {1, 2}

ConcNext == \E e \in ConcExecs : Start(e) \/ ExecStep(e) \/ Consume(e)

ConcInit == Init /\ proc = "analyzer" /\ clients = "any" /\ ~trace

\* The executor of the analyzer process serving two requests.
ConcSpec == ConcInit /\ [][ConcNext]_vars

\* ---------------------------------------------------- executor: the claims
\* Every event execution e has enqueued, in emission order.
Emitted(e) == observed[e] \o queue[e]

\* What an event shows a consumer: its kind, or its state for a status event.
Label(ev) == IF ev.kind = "status" THEN ev.state ELSE ev.kind
Labels(s) == [i \in 1..Len(s) |-> Label(s[i])]

IsPrefix(s, t) == Len(s) <= Len(t) /\ \A i \in 1..Len(s) : s[i] = t[i]

Contains(s, t) == \E i \in 1..(Len(s) + 1 - Len(t)) : SubSeq(s, i, i + Len(t) - 1) = t

IsStatus(ev) == ev.kind = "status"
IsArtifact(ev) == ev.kind = "artifact"
IsTerminal(ev) == ev.kind = "status" /\ ev.state \in {"completed", "failed"}

\* The state the task's events put it in: that of the last status event.
TaskState(e) ==
    LET st == SelectSeq(Emitted(e), IsStatus)
    IN IF st # <<>> THEN st[Len(st)].state
       ELSE IF Emitted(e) # <<>> THEN "submitted" ELSE None

Artifacts(e) == SelectSeq(Emitted(e), IsArtifact)
Terminals(e) == Len(SelectSeq(Emitted(e), IsTerminal))

EndedCompleted(e) == pc[e] = "returned" /\ TaskState(e) = "completed"
EndedFailed(e) == pc[e] = "returned" /\ TaskState(e) = "failed"
Drained(e) == queue[e] = <<>>

CompletedOrder == <<"task", "working", "artifact", "completed">>

\* C1: an execution that ends with the task completed shows its consumer exactly
\* task-created, working, artifact-added, completed, in that order: what has been
\* observed is always a prefix of it and, once the queue is drained, all of it.
C1_CompletedEventOrder ==
    \A e \in Execs :
        EndedCompleted(e) =>
            /\ IsPrefix(Labels(observed[e]), CompletedOrder)
            /\ Drained(e) => Labels(observed[e]) = CompletedOrder

C1_Witness ==
    \E e \in Execs :
        EndedCompleted(e) /\ Drained(e) /\ Len(observed[e]) = 4 /\ raisedAt[e] = "none"

\* C2 as stated: whatever step of the try block raised, a failed execution shows
\* exactly task-created, working, failed.
C2_AnyStepFailedOrder ==
    \A e \in Execs :
        (EndedFailed(e) /\ Drained(e)) =>
            Labels(observed[e]) = <<"task", "working", "failed">>

\* The sequence a failed execution shows, by the line whose call raised.
FailedOrder(line) ==
    CASE line = "l65" -> <<"task", "failed">>
      [] line \in {"l71", "l84", "l98"} -> <<"task", "working", "failed">>
      [] line = "l103" -> <<"task", "working", "artifact", "failed">>

\* C2 amended: a failed execution shows task-created, working, failed when
\* session creation, the generation or add_artifact raised; task-created, failed
\* when the working status update raised; and task-created, working,
\* artifact-added, failed when complete() raised.
C2_FailedEventOrder ==
    \A e \in Execs :
        (EndedFailed(e) /\ Drained(e)) =>
            /\ raisedAt[e] \in {"l65", "l71", "l84", "l98", "l103"}
            /\ Labels(observed[e]) = FailedOrder(raisedAt[e])

C2_Witness ==
    \E e \in Execs :
        /\ EndedFailed(e) /\ Drained(e) /\ raisedAt[e] = "l71"
        /\ Labels(observed[e]) = <<"task", "working", "failed">>

\* C3: a task that completes successfully (execute ran to line 103 and no call
\* raised) has exactly one artifact, named as configured for the agent that
\* executed it, and its state is completed.
C3_OneNamedArtifact ==
    \A e \in Execs :
        (pc[e] = "returned" /\ raisedAt[e] = "none") =>
            /\ Len(Artifacts(e)) = 1
            /\ proc = "trending" => Artifacts(e)[1].name = "trending_topics"
            /\ proc = "analyzer" => Artifacts(e)[1].name = "trend_analysis"
            /\ proc = "host" => Artifacts(e)[1].name = "trend_report"
            /\ TaskState(e) = "completed"

C3_Witness ==
    \E e \in Execs :
        /\ pc[e] = "returned" /\ raisedAt[e] = "none" /\ proc = "analyzer"
        /\ Len(Artifacts(e)) = 1 /\ Artifacts(e)[1].text = "a\n"

\* C4: when the generation call raises, no artifact is attached, the state is
\* failed, and the last event is a final status whose message is non-empty and
\* embeds str() of the raised error.
C4_GenerationFailure ==
    \A e \in Execs :
        (pc[e] = "returned" /\ raisedAt[e] = "l84") =>
            LET last == Emitted(e)[Len(Emitted(e))]
            IN /\ Artifacts(e) = <<>>
               /\ TaskState(e) = "failed"
               /\ last.kind = "status" /\ last.state = "failed"
               /\ last.final
               /\ last.msg # None /\ last.msg # ""
               /\ Contains(last.msg, err[e])

C4_Witness ==
    \E e \in Execs :
        /\ pc[e] = "returned" /\ raisedAt[e] = "l84" /\ err[e] = "boom"
        /\ TaskState(e) = "failed"

\* The generation of execution e has returned or raised.
GenEnded(e) == raisedAt[e] = "l84" \/ (pc[e] = "l98" /\ raisedAt[e] = "none")

C6_FailedIsLast ==
    \A e \in Execs :
        \A i \in 1..Len(Emitted(e)) :
            Label(Emitted(e)[i]) = "failed" =>
                /\ i = Len(Emitted(e))
                /\ pc[e] = "returned"

C6_Witness ==
    \E e \in Execs :
        /\ Drained(e) /\ observed[e] # <<>>
        /\ Label(observed[e][Len(observed[e])]) = "failed"
        /\ raisedAt[e] = "l98"

\* The state of one discovery call: the cache, the result dict so far, and the
\* exception (None for none) that left the loop.
Put(f, u, v) == [x \in (DOMAIN f) \cup {u} |-> IF x = u THEN v ELSE f[x]]

\* The exception the GET raises (line 72 of host-agent/app.py, 45 of demo.py).
NetException(o) ==
    CASE o.net = "refused" -> "ConnectError"
      [] o.net = "timeout" -> "TimeoutException"
      [] OTHER -> None

\* Lines 72-79 of host-agent/app.py: the try body for one url.  Returns the new
\* cache and result, and the exception the body raised (None: it ran through).
HostTryBodyFetchOnce(st, u, o) ==
    IF st.cache[u] # <<>> THEN st
    ELSE IF o.net = "ok" /\ o.status \in 200..299 /\ o.body # "not_json"
    THEN [cache |-> [st.cache EXCEPT ![u] = <<Json(u, o.body)>>],
          result |-> Put(st.result, u, Json(u, o.body)),
          exc |-> None]
    ELSE st
HostTryBody(st, u, o) ==
    IF o.net # "ok" THEN [st EXCEPT !.exc = NetException(o)]
    ELSE IF o.status \notin 200..299 THEN [st EXCEPT !.exc = "HTTPStatusError"]
    ELSE IF o.body = "not_json" THEN [st EXCEPT !.exc = "JSONDecodeError"]
    ELSE LET agent_data == Json(u, o.body)
             stored == [cache |-> [st.cache EXCEPT ![u] = <<agent_data>>],
                        result |-> Put(st.result, u, agent_data),
                        exc |-> None]
         IN IF agent_data.name = None
            THEN [stored EXCEPT !.exc = "KeyError"]
            ELSE stored

\* Lines 45-49 of client/demo.py: the same body without raise_for_status().
DemoTryBody(st, u, o) ==
    IF o.net # "ok" THEN [st EXCEPT !.exc = NetException(o)]
    ELSE IF o.body = "not_json" THEN [st EXCEPT !.exc = "JSONDecodeError"]
    ELSE LET agent_data == Json(u, o.body)
             stored == [cache |-> [st.cache EXCEPT ![u] = <<agent_data>>],
                        result |-> Put(st.result, u, agent_data),
                        exc |-> None]
         IN IF agent_data.name = None
            THEN [stored EXCEPT !.exc = "KeyError"]
            ELSE stored

\* Lines 80-85 of host-agent/app.py: the except clauses, in order.
HostCaughtNarrow(exc) ==
    exc \in {"HTTPStatusError", "ConnectError", "TimeoutException"}
HostCaught(exc) ==
    \/ exc = "HTTPStatusError"
    \/ exc \in {"ConnectError", "TimeoutException"}
    \/ exc # None                   \* except Exception

\* Line 50 of client/demo.py: except Exception.
DemoCaught(exc) == exc # None

\* Lines 68-85 of host-agent/app.py: the for loop over list(cache.keys()); an
\* exception no clause catches leaves the loop and the call.
RECURSIVE HostLoopAborting(_, _, _)
HostLoopAborting(us, fetch, st) ==
    IF us = <<>> THEN st
    ELSE LET after == HostTryBody(st, Head(us), fetch[Head(us)])
         IN IF after.exc = None
            THEN HostLoopAborting(Tail(us), fetch, after)
            ELSE [after EXCEPT !.exc = None]
RECURSIVE HostLoop(_, _, _)
HostLoop(us, fetch, st) ==
    IF us = <<>> THEN st
    ELSE LET after == HostTryBody(st, Head(us), fetch[Head(us)])
         IN IF after.exc = None \/ HostCaught(after.exc)
            THEN HostLoop(Tail(us), fetch, [after EXCEPT !.exc = None])
            ELSE after

\* Lines 41-51 of client/demo.py: the for loop over the cache.
RECURSIVE DemoLoop(_, _, _)
DemoLoop(us, fetch, st) ==
    IF us = <<>> THEN st
    ELSE LET after == DemoTryBody(st, Head(us), fetch[Head(us)])
         IN IF after.exc = None \/ DemoCaught(after.exc)
            THEN DemoLoop(Tail(us), fetch, [after EXCEPT !.exc = None])
            ELSE after

\* A2AToolClient.list_remote_agents (lines 62-87) against the peers `fetch`.
ListRemoteAgentsResult(fetch) ==
    IF DOMAIN cache = {}
    THEN [cache |-> cache, result |-> <<>>, exc |-> None]
    ELSE HostLoop(keys, fetch, [cache |-> cache, result |-> <<>>, exc |-> None])

\* A2ADemoClient.discover_agents (lines 36-53) against the peers `fetch`.
DiscoverAgentsResult(fetch) ==
    DemoLoop(keys, fetch, [cache |-> cache, result |-> <<>>, exc |-> None])

\* The effect of a discovery call that drops the URLs that gave no card.
DiscoveredForgetting(fetch, out) ==
    LET Kept(u) == u \in DOMAIN out.result
    IN /\ cache' = [u \in DOMAIN out.result |-> out.cache[u]]
       /\ keys' = SelectSeq(keys, Kept)
       /\ lastFetch' = fetch
       /\ lastResult' = out.result
       /\ discRaised' = (out.exc # None)
       /\ discCalls' = discCalls + 1
       /\ prevCache' = cache
       /\ prevResult' = lastResult
       /\ samePeers' = (discCalls > 0 /\ fetch = lastFetch)

\* The effect of one discovery call on the client's state.
Discovered(fetch, out) ==
    /\ cache' = out.cache
    /\ lastFetch' = fetch
    /\ lastResult' = out.result
    /\ discRaised' = (out.exc # None)
    /\ discCalls' = discCalls + 1
    /\ prevCache' = cache
    /\ prevResult' = lastResult
    /\ samePeers' = (discCalls > 0 /\ fetch = lastFetch)
    /\ keys' = keys

\* The host client discovers, each peer answering with one of `outcomes`.
ListRemoteAgentsAmong(outcomes) ==
    /\ proc = "host"
    /\ discCalls < MaxDiscCalls
    /\ \E fetch \in [DOMAIN cache -> outcomes] :
           Discovered(fetch, ListRemoteAgentsResult(fetch))
    /\ UNCHANGED <<proc, pc, task, response_text, raisedAt, err, queue, observed, toolLog,
                   sessVars, wire, regVars, cancelVars, genVars>>

\* The host client discovers (called as a tool of the host agent).
ListRemoteAgents == ListRemoteAgentsAmong(FetchOutcomes)

\* The demo client discovers, each peer answering with one of `outcomes`.
DiscoverAgentsAmong(outcomes) ==
    /\ proc = "demo"
    /\ discCalls < MaxDiscCalls
    /\ \E fetch \in [DOMAIN cache -> outcomes] :
           Discovered(fetch, DiscoverAgentsResult(fetch))
    /\ UNCHANGED <<proc, pc, task, response_text, raisedAt, err, queue, observed, toolLog,
                   sessVars, wire, regVars, cancelVars, genVars>>

\* The demo client discovers (run_demo_scenarios, line 162).
DiscoverAgents == DiscoverAgentsAmong(FetchOutcomes)

DiscNext == ListRemoteAgents \/ DiscoverAgents

DiscInit == Init /\ proc \in {"host", "demo"} /\ clients = "own" /\ ~trace

\* The discovery of the host client and of the demo client.
DiscSpec == DiscInit /\ [][DiscNext]_vars

\* str.rstrip('/'): the string without its trailing slashes.
RECURSIVE RStrip(_)
RStrip(s) ==
    IF s # "" /\ SubSeq(s, Len(s), Len(s)) = "/"
    THEN RStrip(SubSeq(s, 1, Len(s) - 1))
    ELSE s

\* The agent_url arguments of add_remote_agent: the URL of a peer __init__
\* registered, with a trailing slash, and that of the host's own server, as it
\* is and with one or two trailing slashes.
RawUrls ==
    {TrendingUrl \o "/", HostUrl, HostUrl \o "/", HostUrl \o "//"}

\* Lines 56-60 of host-agent/app.py and 30-34 of client/demo.py, without the
\* membership test of line 59 (32).
AddRemoteAgentResetting(agent_url) ==
    /\ proc \in {"host", "demo"}
    /\ adds < MaxAdds
    /\ LET normalized_url == RStrip(agent_url)
       IN /\ cache' = Put(cache, normalized_url, <<>>)
          /\ keys' = IF normalized_url \notin DOMAIN cache
                     THEN Append(keys, normalized_url) ELSE keys
    /\ adds' = adds + 1
    /\ lastAdd' = <<[agent_url |-> agent_url, calls |-> discCalls]>>
    /\ UNCHANGED <<proc, pc, task, response_text, raisedAt, err, queue, observed,
                   discCalls, lastFetch, lastResult, discRaised, prevCache, prevResult,
                   samePeers, toolLog, sessVars, wire, cancelVars, genVars>>

\* Lines 56-60 of host-agent/app.py and 30-34 of client/demo.py:
\* add_remote_agent(agent_url).
AddRemoteAgent(agent_url) ==
    /\ proc \in {"host", "demo"}
    /\ adds < MaxAdds
    /\ LET normalized_url == RStrip(agent_url)
       IN IF normalized_url \notin DOMAIN cache
          THEN /\ cache' = Put(cache, normalized_url, <<>>)
               /\ keys' = Append(keys, normalized_url)
          ELSE UNCHANGED <<cache, keys>>
    /\ adds' = adds + 1
    /\ lastAdd' = <<[agent_url |-> agent_url, calls |-> discCalls]>>
    /\ UNCHANGED <<proc, pc, task, response_text, raisedAt, err, queue, observed,
                   discCalls, lastFetch, lastResult, discRaised, prevCache, prevResult,
                   samePeers, toolLog, sessVars, wire, cancelVars, genVars>>

\* The peers of a client that registers and discovers: unreachable, answering
\* with the card, or answering with a document the client stores and then
\* fails on.
RegOutcomes ==
    {[net |-> "refused", status |-> 0, body |-> None],
     [net |-> "ok", status |-> 200, body |-> "card"],
     [net |-> "ok", status |-> 200, body |-> "no_name"]}

RegNext ==
    \/ \E agent_url \in RawUrls : AddRemoteAgent(agent_url)
    \/ ListRemoteAgentsAmong(RegOutcomes)
    \/ DiscoverAgentsAmong(RegOutcomes)

\* A client whose callers register agents and discover, in any order.
RegSpec == DiscInit /\ [][RegNext]_vars

\* --------------------------------------------------- discovery: the claims
Unreachable(o) == o.net \in {"refused", "timeout"}
WellFormed(o) == o.net = "ok" /\ o.status = 200 /\ o.body = "card"

\* C7: a discovery call never raises; it omits every unreachable URL and returns
\* the card of every URL that is reachable with a well-formed card, wherever in
\* the visiting order the unreachable ones stand; when every URL is one or the
\* other, the result omits exactly the unreachable ones.
C7_DiscoveryIsolatesFailures ==
    discCalls > 0 =>
        /\ ~discRaised
        /\ \A u \in Registered(proc) :
              /\ Unreachable(lastFetch[u]) => u \notin DOMAIN lastResult
              /\ WellFormed(lastFetch[u]) =>
                    /\ u \in DOMAIN lastResult
                    /\ lastResult[u].name = CardName(u)
                    /\ lastResult[u].url = u
        /\ (\A u \in Registered(proc) :
                Unreachable(lastFetch[u]) \/ WellFormed(lastFetch[u])) =>
              DOMAIN lastResult =
                  {u \in Registered(proc) : ~Unreachable(lastFetch[u])}

C7_Witness ==
    /\ discCalls > 0 /\ proc = "demo"
    /\ lastFetch[TrendingUrl].net = "refused"
    /\ lastFetch[AnalyzerUrl].net = "timeout"
    /\ WellFormed(lastFetch[HostUrl])
    /\ DOMAIN lastResult = {HostUrl}

\* A fetch that ends in one of the failure conditions of the registry.
FetchFailed(o) == ~WellFormed(o)

\* C8: every URL whose fetch ends in a failure condition (connection refused,
\* timeout, non-2xx status, malformed body) is omitted from the result of the
\* host's and of the demo client's discovery, and its body is not cached.
C8_FailedFetchOmitted ==
    discCalls > 0 =>
        \A u \in Registered(proc) :
            FetchFailed(lastFetch[u]) =>
                /\ u \notin DOMAIN lastResult
                /\ (lastFetch[u].net = "ok" /\ lastFetch[u].body # "not_json") =>
                       cache[u] # <<Json(u, lastFetch[u].body)>>

\* ------------------------------------------------- the host agent's dispatch
\* What POST {agent_url} meets: the connection fails, or a response arrives: an
\* error page with a non-2xx status, a 200 whose body is not JSON, or the
\* JSON-RPC envelope of the downstream task (completed with an artifact, or failed).
SendOutcomes ==
    {[net |-> "refused", status |-> 0, body |-> None],
     [net |-> "timeout", status |-> 0, body |-> None],
     [net |-> "ok", status |-> 503, body |-> "not_json"],
     [net |-> "ok", status |-> 200, body |-> "not_json"],
     [net |-> "ok", status |-> 200, body |-> "completed"],
     [net |-> "ok", status |-> 200, body |-> "failed"]}

\* str(e) of the exceptions of httpx and of response.json().
ExcStr(exc) ==
    CASE exc = "ConnectError" -> "All connection attempts failed"
      [] exc = "TimeoutException" -> ""
      [] exc = "HTTPStatusError" -> "Server error '503 Service Unavailable'"
      [] exc = "JSONDecodeError" -> "Expecting value: line 1 column 1 (char 0)"

\* response.text of a response whose body is not JSON.
BodyText(o) == IF o.status = 200 THEN "<html>ok</html>" ELSE "Service Unavailable"

\* json.dumps(response.json(), indent=2) of the envelope agent `url` answers.
JsonDumps(url, body) ==
    IF body = "completed"
    THEN "{\"result\": {\"artifacts\": [{\"name\": \""
         \o (IF url = TrendingUrl THEN "trending_topics" ELSE "trend_analysis")
         \o "\", \"parts\": [{\"text\": \"T\"}]}], \"status\": {\"state\": \"completed\"}}}"
    ELSE "{\"result\": {\"status\": {\"state\": \"failed\", \"message\": \"Error: boom\"}}}"

\* A2AToolClient._send_message (lines 89-123): the text it returns, or the
\* exception (exc) that leaves it: client.post is outside the inner try.  posts:
\* the JSON-RPC methods of the requests it has sent to the agent.
SendMessage(url, message, o) ==
    IF o.net # "ok"
    THEN [exc |-> NetException(o), value |-> None, posts |-> <<"message/send">>]
    ELSE IF o.status \notin 200..299
    THEN [exc |-> None,
          value |-> "Error in response: " \o ExcStr("HTTPStatusError")
                    \o "\nResponse text: " \o BodyText(o),
          posts |-> <<"message/send">>]
    ELSE IF o.body = "not_json"
    THEN [exc |-> None,
          value |-> "Error in response: " \o ExcStr("JSONDecodeError")
                    \o "\nResponse text: " \o BodyText(o),
          posts |-> <<"message/send">>]
    ELSE [exc |-> None, value |-> JsonDumps(url, o.body), posts |-> <<"message/send">>]

\* A2AToolClient.create_task (lines 126-131): try _send_message, except Exception.
CreateTaskNoCatch(url, message, o) == SendMessage(url, message, o)
CreateTaskCancelling(url, message, o) ==
    LET r == SendMessage(url, message, o)
    IN IF r.exc # None
       THEN [exc |-> None, value |-> "Agent communication error: " \o ExcStr(r.exc),
             posts |-> r.posts \o <<"tasks/cancel">>]
       ELSE r
CreateTask(url, message, o) ==
    LET r == SendMessage(url, message, o)
    IN IF r.exc # None
       THEN [exc |-> None, value |-> "Agent communication error: " \o ExcStr(r.exc),
             posts |-> r.posts]
       ELSE r

\* The messages the host's generation dispatches: the request's text, or the
\* text a previous create_task returned (the hand-off between agents).
DispatchMessages(e) == {"q"} \cup {ToolTexts(e)[i] : i \in 1..Len(ToolTexts(e))}

\* The host's generation calls the tool create_task (tools=[...], line 174); the
\* call and what it returned are logged.  An exception of the tool (text None)
\* leaves run_async, into the except clause of execute.
ToolCreateTask(e) ==
    /\ proc = "host"
    /\ pc[e] = "l84"
    /\ Len(toolLog[e]) < MaxToolCalls
    /\ \E url \in Registered(proc), message \in DispatchMessages(e), o \in SendOutcomes :
          LET r == CreateTask(url, message, o)
          IN /\ toolLog' = [toolLog EXCEPT ![e] = Append(@,
                    [tool |-> "create_task", url |-> url, message |-> message,
                     outcome |-> o, text |-> r.value])]
             /\ wire' = wire \o [i \in 1..Len(r.posts) |->
                                     [url |-> url, method |-> r.posts[i]]]
             /\ IF r.exc # None
                THEN /\ pc' = [pc EXCEPT ![e] = "l106"]
                     /\ raisedAt' = [raisedAt EXCEPT ![e] = "l129"]
                     /\ err' = [err EXCEPT ![e] = ExcStr(r.exc)]
                ELSE UNCHANGED <<pc, raisedAt, err>>
    /\ UNCHANGED <<proc, task, response_text, queue, observed, discVars, sessVars,
                   regVars, cancelVars, genVars>>

\* The peers the host's generation meets when it discovers: down, or up with
\* their card (DiscSpec covers every outcome of a fetch).
PlanFetchOutcomes ==
    {o \in FetchOutcomes : o.net = "refused" \/ WellFormed(o)}

\* The host's generation calls the tool list_remote_agents (line 174).
ToolListRemoteAgents(e) ==
    /\ proc = "host"
    /\ pc[e] = "l84"
    /\ Len(toolLog[e]) < MaxToolCalls
    /\ discCalls < MaxDiscCalls
    /\ \E fetch \in [DOMAIN cache -> PlanFetchOutcomes] :
          LET out == ListRemoteAgentsResult(fetch)
          IN /\ Discovered(fetch, out)
             /\ toolLog' = [toolLog EXCEPT ![e] = Append(@,
                    [tool |-> "list_remote_agents", url |-> None,
                     message |-> None, outcome |-> None, text |-> None])]
             /\ IF out.exc # None
                THEN /\ pc' = [pc EXCEPT ![e] = "l106"]
                     /\ raisedAt' = [raisedAt EXCEPT ![e] = "l62"]
                     /\ err' = [err EXCEPT ![e] = out.exc]
                ELSE UNCHANGED <<pc, raisedAt, err>>
    /\ UNCHANGED <<proc, task, response_text, queue, observed, sessVars, wire,
                   regVars, cancelVars, genVars>>

\* One execution of the host agent: its tool calls are those of one request.
HostNext ==
    \E e \in {1} :
        \/ Start(e)
        \/ ExecStep(e)
        \/ ToolListRemoteAgents(e)
        \/ ToolCreateTask(e)

HostInit == Init /\ proc = "host" /\ clients = "own" /\ ~trace

\* The host agent: execute() with the tool calls of its generation.
HostSpec == HostInit /\ [][HostNext]_vars

\* -------------------------------------------------- dispatch: the claims
DispatchFailed(o) == ~(o.net = "ok" /\ o.status = 200 /\ o.body # "not_json")

\* The exception a failed dispatch meets.
DispatchException(o) ==
    CASE o.net # "ok" -> NetException(o)
      [] o.status \notin 200..299 -> "HTTPStatusError"
      [] OTHER -> "JSONDecodeError"

StartsWith(s, t) == Len(s) >= Len(t) /\ SubSeq(s, 1, Len(t)) = t

\* C9: create_task never raises into the planning loop: whatever the dispatch
\* meets (connection error, timeout, non-2xx status, undecodable body), the call
\* returns a text that describes the error, in the place of the agent's output.
C9_CreateTaskNeverRaises ==
    \A e \in Execs :
        /\ raisedAt[e] # "l129"
        /\ \A i \in 1..Len(toolLog[e]) :
              LET l == toolLog[e][i]
              IN (IsCreateTask(l) /\ DispatchFailed(l.outcome)) =>
                    /\ \/ StartsWith(l.text, "Agent communication error: ")
                       \/ StartsWith(l.text, "Error in response: ")
                    /\ Contains(l.text, ExcStr(DispatchException(l.outcome)))

C9_Witness ==
    \E e \in Execs :
        \E i \in 1..Len(toolLog[e]) :
            /\ IsCreateTask(toolLog[e][i])
            /\ toolLog[e][i].outcome.net = "refused"
            /\ toolLog[e][i].text
                   = "Agent communication error: All connection attempts failed"

\* The dispatches of execution e to the analyzer that found it unreachable.
AnalyzerUnreachable(e) ==
    {i \in 1..Len(toolLog[e]) :
        /\ IsCreateTask(toolLog[e][i])
        /\ toolLog[e][i].url = AnalyzerUrl
        /\ Unreachable(toolLog[e][i].outcome)}

IsListRemoteAgents(l) == l.tool = "list_remote_agents"

\* C11: in every orchestration run discovery precedes dispatch: no call of
\* create_task happens before a call of list_remote_agents of that run.
C11_DiscoveryPrecedesDispatch ==
    \A e \in Execs :
        \A i \in 1..Len(toolLog[e]) :
            IsCreateTask(toolLog[e][i]) =>
                \E j \in 1..(i - 1) : IsListRemoteAgents(toolLog[e][j])

\* ------------------------------------------------ the hand-off: the claims
\* response.json() of the envelope agent `url` answers (see JsonDumps).
ResponseJson(url, body) ==
    IF body = "completed"
    THEN [result |->
            [artifacts |->
                <<[name |-> IF url = TrendingUrl THEN "trending_topics"
                            ELSE "trend_analysis",
                   parts |-> <<[text |-> "T"]>>]>>,
             status |-> [state |-> "completed"]]]
    ELSE [result |-> [status |-> [state |-> "failed", message |-> "Error: boom"]]]

\* The texts of the parts of a sequence of parts that have a text.
RECURSIVE PartTexts(_)
PartTexts(parts) ==
    IF parts = <<>> THEN <<>>
    ELSE (IF "text" \in DOMAIN Head(parts) THEN <<Head(parts).text>> ELSE <<>>)
         \o PartTexts(Tail(parts))

\* The texts of the parts of a sequence of artifacts.
RECURSIVE ArtifactTexts(_)
ArtifactTexts(artifacts) ==
    IF artifacts = <<>> THEN <<>>
    ELSE (IF "parts" \in DOMAIN Head(artifacts)
          THEN PartTexts(Head(artifacts).parts) ELSE <<>>)
         \o ArtifactTexts(Tail(artifacts))

\* "\n\n".join(text_parts)
RECURSIVE JoinParagraphs(_)
JoinParagraphs(texts) ==
    IF Len(texts) = 1 THEN Head(texts)
    ELSE Head(texts) \o "\n\n" \o JoinParagraphs(Tail(texts))

\* A2AToolClient._extract_response_text (lines 133-146) on the envelope of
\* agent `url`: the joined texts of the artifacts' parts, or the dumped envelope.
ExtractResponseText(url, body) ==
    LET response_dict == ResponseJson(url, body)
        text_parts ==
            IF "result" \in DOMAIN response_dict
                   /\ "artifacts" \in DOMAIN response_dict.result
            THEN ArtifactTexts(response_dict.result.artifacts)
            ELSE <<>>
    IN IF text_parts # <<>> THEN JoinParagraphs(text_parts)
       ELSE JsonDumps(url, body)

\* C12: for a successful dispatch, the value the orchestrator receives from the
\* dispatch (and can feed to the next agent) is the text extracted from the
\* artifacts of the response, not the response envelope.
C12_DispatchReturnsArtifactText ==
    \A e \in Execs :
        \A i \in 1..Len(toolLog[e]) :
            LET l == toolLog[e][i]
            IN (IsCreateTask(l) /\ ~DispatchFailed(l.outcome)) =>
                   l.text = ExtractResponseText(l.url, l.outcome.body)

\* ------------------------------------------- the executor's error boundary
\* C13: no exception escapes execute: whatever step fails (reading the user
\* input, creating the task, enqueuing the task event, the working status, the
\* session, the generation, the artifact, completing), execute returns normally
\* and the task's state is failed.
C13_NoExceptionEscapes ==
    \A e \in Execs :
        raisedAt[e] # "none" =>
            /\ pc[e] \in {"l106", "returned"}
            /\ pc[e] = "returned" => TaskState(e) = "failed"

\* ---------------------------------------------- working before generation
\* The generation of execution e is being invoked (execute is at the call of
\* run_async) or has been invoked.
GenerationInvoked(e) ==
    \/ pc[e] \in {"l84", "l98", "l103"}
    \/ raisedAt[e] \in {"l84", "l98", "l103", "l62", "l129"}
    \/ toolLog[e] # <<>>

\* The positions of the working status events execution e has emitted.
WorkingEvents(e) ==
    {i \in 1..Len(Emitted(e)) :
        IsStatus(Emitted(e)[i]) /\ Emitted(e)[i].state = "working"}

\* C14: the working status event, carrying the status message configured for the
\* agent, is emitted before the generation is invoked: whenever the generation
\* is or has been invoked, the task event and then one non-final working event
\* with that message have been emitted, and nothing was emitted between them.
C14_WorkingBeforeGeneration ==
    \A e \in Execs :
        GenerationInvoked(e) =>
            /\ WorkingEvents(e) = {2}
            /\ Emitted(e)[1].kind = "task"
            /\ Emitted(e)[2].taskId = task[e]
            /\ Emitted(e)[2].final = FALSE
            /\ proc = "trending" => Emitted(e)[2].msg = "Searching for trending topics..."
            /\ proc = "analyzer" =>
                   Emitted(e)[2].msg = "Analyzing trend with quantitative data..."
            /\ proc = "host" => Emitted(e)[2].msg = "Orchestrating trend analysis..."

C14_Witness ==
    \E e \in Execs :
        /\ pc[e] = "l98" /\ proc = "trending" /\ response_text[e] = "a\n"
        /\ WorkingEvents(e) = {2}
        /\ Emitted(e)[2].msg = "Searching for trending topics..."

\* ------------------------------------------------ the discovery cache
\* C15: the cache remembers the last successful result per URL: a discovery
\* call overwrites the entry of a URL whose fetch succeeded with the fetched
\* card and leaves the entry of a URL whose fetch failed as it was.
C15_CacheKeepsLastSuccess ==
    discCalls > 0 =>
        \A u \in Registered(proc) :
            IF FetchFailed(lastFetch[u])
            THEN cache[u] = prevCache[u]
            ELSE cache[u] = <<Json(u, lastFetch[u].body)>>

\* C16: discovery is idempotent against unchanged agents: a discovery call that
\* meets the same cards and the same reachability as the call before it returns
\* the same result and leaves the cache as that call left it.
C16_DiscoveryIdempotent ==
    samePeers =>
        /\ lastResult = prevResult
        /\ cache = prevCache

C16_Witness ==
    /\ samePeers /\ discCalls = 2
    /\ WellFormed(lastFetch[TrendingUrl])
    /\ Unreachable(lastFetch[AnalyzerUrl])
    /\ DOMAIN lastResult = {TrendingUrl}
    /\ lastResult = prevResult
    /\ cache[TrendingUrl] = <<lastResult[TrendingUrl]>>
    /\ cache[AnalyzerUrl] = <<>>

\* ------------------------------------------------ re-use of a contextId
\* Execution e serves a message without taskId that carries the contextId of
\* the task of f, which has completed.
Resent(e, f) ==
    /\ e # f
    /\ task[e] = e /\ task[f] = f
    /\ ctx[e] = ctx[f]
    /\ EndedCompleted(f)

Advancing(e) == pc[e] \in {"l59", "l65", "l71", "l84", "l98", "l103", "l106"}

\* C18: when requests are executed concurrently, no two executions mutate the
\* same Task record (no two executions that are advancing have the same task),
\* and the consumer of each request observes only the events of its task, in the
\* order its execution emitted them.
C18_OneExecutionPerTask ==
    /\ \A e \in ConcExecs : \A f \in ConcExecs :
          (e # f /\ Advancing(e) /\ Advancing(f)) => task[e] # task[f]
    /\ \A e \in ConcExecs :
          \A i \in 1..Len(observed[e]) : observed[e][i].taskId = task[e]

\* ------------------------------------------------ state shared by tasks
\* The task ids that have touched the session stored under id c: the task that
\* created it and the tasks whose generations the runner recorded in it.
SessionTasks(c) ==
    IF sessions[c] = <<>> THEN {}
    ELSE {sessions[c][1].owner}
         \cup {sessions[c][1].events[i] : i \in 1..Len(sessions[c][1].events)}

\* task.contextId of task t.
ContextOf(t) == ctx[CHOOSE e \in Slots : task[e] = t]

\* C19: there is no shared mutable state across tasks other than the Task Store
\* and the discovery cache: an execution that is about to create or to use its
\* session finds under its session id no state of another task, and no session
\* holds state of two tasks.
C19_NoSharedSessionState ==
    /\ \A e \in ConcExecs :
          pc[e] \in {"l71", "l84"} => SessionTasks(SessionId(e)) \subseteq {task[e]}
    /\ \A c \in Contexts : Cardinality(SessionTasks(c)) <= 1

\* C19 amended: beside the Task Store and the discovery cache, the tasks of a
\* process share the session registry of the runner, keyed by contextId: an
\* execution touches only the session of its task's contextId, so a session
\* holds state only of tasks of its contextId, and tasks of different contextIds
\* share no session.
C19_SessionsSharedPerContext ==
    /\ \A c \in Contexts : \A t \in SessionTasks(c) : ContextOf(t) = c
    /\ \A e \in ConcExecs : \A f \in ConcExecs :
          (task[e] # 0 /\ task[f] # 0 /\ ctx[e] # ctx[f]) =>
              \A c \in Contexts : ~({task[e], task[f]} \subseteq SessionTasks(c))

C19_Witness ==
    \E e \in ConcExecs : \E f \in ConcExecs :
        /\ task[e] = e /\ task[f] = f /\ e # f
        /\ ctx[e] = ctx[f]
        /\ sessions[ctx[e]] # <<>>
        /\ sessions[ctx[e]][1].owner = task[f]
        /\ sessions[ctx[e]][1].events = <<task[e]>>

\* ------------------------------------------------ no downstream cancellation
\* The create_task calls of the host's execution, in call order.
Dispatches == SelectSeq(toolLog[1], IsCreateTask)

taskVars == <<pc, task, ctx, response_text, raisedAt, err, queue, observed, sessions>>

\* C21: cancel(taskId) performs no state transition: for any task id, in any
\* state of any task and at any point of an execution, a cancel call returns,
\* emits no event and leaves every task as it was.
C21_CancelChangesNothing ==
    [][cancels' # cancels => UNCHANGED taskVars]_vars

C21_Witness ==
    /\ cancels = 1 /\ lastCancel = <<[id |-> 1, at |-> {"l84"}]>>
    /\ pc[1] = "returned" /\ task[1] = 1
    /\ Labels(Emitted(1)) = CompletedOrder


\* The positions <<i, j>> of the parts that carry output: part j of event i, a
\* final response, has a text that is not empty.
TextPositions(evs) ==
    {ij \in (1..Len(evs)) \X (1..MaxYield) :
        /\ evs[ij[1]].final
        /\ ij[2] <= Len(evs[ij[1]].parts)
        /\ evs[ij[1]].parts[ij[2]].text \notin {None, ""}}

\* The generation of e returned, and what it yielded carries no output.
EmptyOutput(e) == yielded[e] # <<>> /\ TextPositions(yielded[e][1]) = {}

\* C22: when the generation returns without error and yields no output (no
\* final-response event, or final responses without a non-empty text part), the
\* execution attaches an artifact whose text is "", never another text and
\* never two artifacts, and completes the task; the task fails only when the
\* add_artifact or complete call itself raises.
C22_EmptyOutputCompletes ==
    \A e \in Execs :
        EmptyOutput(e) =>
            /\ Len(Artifacts(e)) <= 1
            /\ \A i \in 1..Len(Artifacts(e)) : Artifacts(e)[i].text = ""
            /\ pc[e] \in {"l103", "returned"} /\ raisedAt[e] \in {"none", "l103"}
                  => Len(Artifacts(e)) = 1
            /\ pc[e] = "returned" /\ raisedAt[e] = "none" => TaskState(e) = "completed"
            /\ TaskState(e) = "failed" => raisedAt[e] \in {"l98", "l103"}

C22_Witness ==
    \E e \in Execs :
        /\ yielded[e] = <<(<<[final |-> TRUE,
                              parts |-> <<[text |-> "", function_call |-> FALSE]>>],
                             [final |-> FALSE,
                              parts |-> <<[text |-> "b", function_call |-> FALSE]>>]>>)>>
        /\ pc[e] = "returned" /\ raisedAt[e] = "none" /\ Drained(e)
        /\ Len(Artifacts(e)) = 1 /\ Artifacts(e)[1].text = ""
        /\ TaskState(e) = "completed"

\* The parts of the final-response events, in the order they were yielded.
RECURSIVE FinalParts(_)
FinalParts(evs) ==
    IF evs = <<>> THEN <<>>
    ELSE (IF Head(evs).final THEN Head(evs).parts ELSE <<>>) \o FinalParts(Tail(evs))

HasText(p) == p.text # None /\ p.text # ""

\* The texts of the parts, each followed by a newline, in one string.
RECURSIVE EachWithNewline(_)
EachWithNewline(ps) ==
    IF ps = <<>> THEN ""
    ELSE EachWithNewline(SubSeq(ps, 1, Len(ps) - 1)) \o ps[Len(ps)].text \o "\n"

\* C23: the text of the artifact is the concatenation, in the order yielded, of
\* the non-empty text parts of the final-response events, each followed by a
\* newline; other events and parts add nothing, and a completed task has it in
\* its one artifact.
C23_ArtifactTextIsFinalText ==
    \A e \in Execs :
        yielded[e] # <<>> =>
            LET expected == EachWithNewline(SelectSeq(FinalParts(yielded[e][1]), HasText))
            IN /\ \A i \in 1..Len(Artifacts(e)) : Artifacts(e)[i].text = expected
               /\ pc[e] = "returned" /\ raisedAt[e] = "none" =>
                     /\ Len(Artifacts(e)) = 1
                     /\ TaskState(e) = "completed"

C23_Witness ==
    \E e \in Execs :
        /\ yielded[e] = <<(<<[final |-> TRUE,
                              parts |-> <<[text |-> "b", function_call |-> FALSE]>>],
                             [final |-> TRUE,
                              parts |-> <<[text |-> "a", function_call |-> FALSE]>>]>>)>>
        /\ pc[e] = "returned" /\ raisedAt[e] = "none" /\ Drained(e)
        /\ Len(Artifacts(e)) = 1 /\ Artifacts(e)[1].text = "b\na\n"
        /\ TaskState(e) = "completed"


NoTrailingSlash(u) == u = "" \/ SubSeq(u, Len(u), Len(u)) # "/"

RECURSIVE Slashes(_)
Slashes(n) == IF n = 0 THEN "" ELSE "/" \o Slashes(n - 1)

\* u is agent_url without its trailing slashes.
IsStripped(u, agent_url) ==
    /\ NoTrailingSlash(u)
    /\ Len(u) <= Len(agent_url)
    /\ agent_url = u \o Slashes(Len(agent_url) - Len(u))

NoDuplicates(s) == \A i, j \in 1..Len(s) : s[i] = s[j] => i = j

\* C24: add_remote_agent keys the cache by the URL without its trailing
\* slashes and is idempotent: after a call the cache has exactly one key for the
\* URL, however many slashes it was given with and however often it was
\* registered; a new entry holds None, and every entry the cache had, that of an
\* already registered URL included, keeps its value.
C24_RegistrationIdempotent ==
    [][adds' # adds =>
          LET agent_url == lastAdd'[1].agent_url
          IN /\ Cardinality({u \in DOMAIN cache' : IsStripped(u, agent_url)}) = 1
             /\ \A u \in DOMAIN cache' : NoTrailingSlash(u)
             /\ \A u \in DOMAIN cache : u \in DOMAIN cache' /\ cache'[u] = cache[u]
             /\ \A u \in DOMAIN cache' \ DOMAIN cache :
                    IsStripped(u, agent_url) /\ cache'[u] = <<>>
             /\ NoDuplicates(keys')
             /\ {keys'[i] : i \in 1..Len(keys')} = DOMAIN cache'
      ]_vars

C24_Witness ==
    /\ proc = "host" /\ adds = 2 /\ discCalls = 1
    /\ lastAdd = <<[agent_url |-> HostUrl \o "//", calls |-> 1]>>
    /\ keys = <<TrendingUrl, AnalyzerUrl, HostUrl>>
    /\ cache[HostUrl] # <<>> /\ cache[HostUrl][1].name = "Trend Analysis Host"

\* The last discovery result and the cache agree.
ResultAgrees ==
    /\ DOMAIN lastResult \subseteq DOMAIN cache
    /\ \A u \in DOMAIN lastResult :
           NoTrailingSlash(u) /\ cache[u] = <<lastResult[u]>>

\* C25: whatever add_remote_agent and discovery calls came before, the keys of
\* a discovery result are registered, normalized URLs, the cache entry of each
\* URL of the result is the card returned for it, and a discovery call neither
\* adds nor removes a key of the cache.
C25_DiscoveryWithinRegistry ==
    [][/\ ResultAgrees'
       /\ discCalls' # discCalls =>
              /\ DOMAIN cache' = DOMAIN cache
              /\ keys' = keys
              /\ DOMAIN lastResult' \subseteq DOMAIN cache
      ]_vars

C25_Witness ==
    /\ proc = "host" /\ adds = 1 /\ discCalls = 2
    /\ lastAdd = <<[agent_url |-> HostUrl \o "/", calls |-> 1]>>
    /\ DOMAIN lastResult = {AnalyzerUrl, HostUrl}
    /\ lastResult[HostUrl].name = "Trend Analysis Host"
    /\ cache[HostUrl] = <<lastResult[HostUrl]>>
    /\ cache[TrendingUrl] # <<>>
    /\ DOMAIN cache = {TrendingUrl, AnalyzerUrl, HostUrl}

====
